---------------------------- MODULE Spec2Model ----------------------------
(***************************************************************************)
(* A model of tools/pkg.py: the three packaging commands                   *)
(*   set-salt-version, pre-archive-cleanup and generate-hashes.            *)
(*                                                                         *)
(* Each command is a sequential program; its position is a pc variable.    *)
(* Texts (file contents, command output) are sequences of tokens, so that  *)
(* writing, appending, stripping and formatting are real operations.       *)
(***************************************************************************)
EXTENDS Integers, Sequences, FiniteSets, TLC

VARIABLES
    \* ---- set-salt-version ----
    vpc,            \* position in set_salt_version
    vfile,          \* salt/_version.txt: [exists, text]
    salt_is_dir,    \* REPO_ROOT/salt is a directory
    git_exists,     \* REPO_ROOT/.git exists
    salt_version,   \* the argument / local: [given, text]
    overwrite,      \* the --overwrite flag
    environ,        \* os.environ: GITHUB_ENV, GITHUB_OUTPUT (a path or None)
    cifiles,        \* the files the CI variables can name: path -> [exists, text]
    stdout,         \* what 'python3 salt/version.py' prints
    discovered,     \* ctx.run(...) has been invoked
    exitcode,       \* the process' exit status, Running until it ends
    raised,         \* the operation whose exception ended or failed the run
    vfile0,         \* salt/_version.txt when the command was invoked
    cifiles0,       \* the CI files when the command was invoked
    \* ---- pre-archive-cleanup ----
    cpc,            \* position in pre_archive_cleanup
    fs,             \* the file system: path -> [kind, target, data]
    pkg,            \* the --pkg flag
    sys_platform,   \* sys.platform
    dir_patterns,   \* the flattened directory patterns
    file_patterns,  \* the flattened file patterns
    stack,          \* os.walk: the directories still to be walked
    top,            \* os.walk: the directory being listed ("root" in the loop)
    dirs,           \* os.walk: the entries of top listed as directories
    dirs_todo,      \* the entries the "for dirname in dirs" loop has not reached
    files_todo,     \* the entries the "for filename in files" loop has not reached
    path,           \* the resolved path about to be deleted
    run,            \* which run of the command this is (1, 2, ...)
    missed,         \* the places where a listed file turned out to be gone
    envops,         \* removals done by another process
    fs0,            \* the file system before the first run
    fs_prev,        \* the file system when the current run started
    \* ---- generate-hashes ----
    hpc,            \* position in generate_hashes
    hfs,            \* the directory of the hashed files: name -> text
    files,          \* the files argument
    fi,             \* the index of fpath in files
    hi,             \* the index of hash_name in ("blake2b", "sha512", "sha3_512")
    hashes,         \* the dict of the current file, in insertion order
    legacy,         \* hashlib has no file_digest (Python < 3.11)
    hfs0            \* the directory when the command was invoked

vvars == <<vpc, vfile, salt_is_dir, git_exists, salt_version, overwrite, environ,
           cifiles, stdout, discovered, exitcode, raised, vfile0, cifiles0>>

cvars == <<cpc, fs, pkg, sys_platform, dir_patterns, file_patterns, stack, top, dirs,
           dirs_todo, files_todo, path, run, missed, envops, fs0, fs_prev>>

hvars == <<hpc, hfs, files, fi, hi, hashes, legacy, hfs0>>

vars == <<vvars, cvars, hvars>>

-----------------------------------------------------------------------------
(* Texts *)

None == "None"
Running == -1

Absent == [exists |-> FALSE, text |-> <<>>]
File(t) == [exists |-> TRUE, text |-> t]

Whitespace == {"\n", " "}

\* bytes.strip(): drop leading and trailing whitespace
RECURSIVE LStrip(_)
LStrip(s) == IF s # <<>> /\ Head(s) \in Whitespace THEN LStrip(Tail(s)) ELSE s

RECURSIVE RStrip(_)
RStrip(s) ==
    IF s # <<>> /\ s[Len(s)] \in Whitespace THEN RStrip(SubSeq(s, 1, Len(s) - 1)) ELSE s

Strip(s) == RStrip(LStrip(s))

-----------------------------------------------------------------------------
(* set-salt-version: inputs *)

Versions == {<<"1.2.3">>, <<"3006", ".", "1">>}
OldTexts == {<<"3005.0">>, <<"3005.0", "\n">>}
Stdouts == {<<"3007.0", "\n">>, <<" ", "3007", ".", "1", "\n", "\n">>}
CiPaths == {"/ci/env", "/ci/out"}
CiTexts == {<<"FOO=1", "\n">>}

InitVersion ==
    /\ vpc = "start"
    /\ vfile \in {Absent} \cup {File(t) : t \in OldTexts}
    /\ salt_is_dir \in BOOLEAN
    /\ vfile.exists => salt_is_dir
    /\ git_exists \in BOOLEAN
    /\ salt_version \in {[given |-> FALSE, text |-> <<>>]}
                          \cup {[given |-> TRUE, text |-> v] : v \in Versions}
    /\ overwrite \in BOOLEAN
    /\ environ \in [GITHUB_ENV : {None, "/ci/env"}, GITHUB_OUTPUT : {None} \cup CiPaths]
    /\ cifiles \in [CiPaths -> {Absent} \cup {File(t) : t \in CiTexts}]
    /\ stdout \in Stdouts
    /\ discovered = FALSE
    /\ exitcode = Running
    /\ raised = None
    /\ vfile0 = vfile
    /\ cifiles0 = cifiles

-----------------------------------------------------------------------------
(* set-salt-version: steps *)

Exit(code) == vpc' = "done" /\ exitcode' = code

\* an exception nothing catches: traceback, exit status 1
Raise(op) == vpc' = "done" /\ exitcode' = 1 /\ raised' = op

\* a variant that forgets to test the overwrite flag
CheckExisting_IgnoresFlag ==
    /\ vpc = "start"
    /\ IF vfile.exists THEN vpc' = "unlink" ELSE vpc' = "version"
    /\ UNCHANGED <<vfile, salt_is_dir, git_exists, salt_version, overwrite, environ,
                   cifiles, stdout, discovered, exitcode, raised, vfile0, cifiles0, cvars, hvars>>

\* lines 48-52 up to the unlink
CheckExisting ==
    /\ vpc = "start"
    /\ IF vfile.exists
       THEN IF ~overwrite
            THEN Exit(1)
            ELSE vpc' = "unlink" /\ UNCHANGED exitcode
       ELSE vpc' = "version" /\ UNCHANGED exitcode
    /\ UNCHANGED <<vfile, salt_is_dir, git_exists, salt_version, overwrite, environ,
                   cifiles, stdout, discovered, raised, vfile0, cifiles0, cvars, hvars>>

\* line 52
UnlinkExisting ==
    /\ vpc = "unlink"
    /\ \E ok \in BOOLEAN :
         IF ok
         THEN vfile' = Absent /\ vpc' = "version" /\ UNCHANGED <<exitcode, raised>>
         ELSE Raise("unlink") /\ UNCHANGED vfile
    /\ UNCHANGED <<salt_is_dir, git_exists, salt_version, overwrite, environ,
                   cifiles, stdout, discovered, vfile0, cifiles0, cvars, hvars>>

\* lines 53-63
DiscoverVersion ==
    /\ vpc = "version"
    /\ IF salt_version.given
       THEN vpc' = "dircheck" /\ UNCHANGED <<salt_version, discovered, exitcode>>
       ELSE IF ~git_exists
            THEN Exit(1) /\ UNCHANGED <<salt_version, discovered>>
            ELSE /\ discovered' = TRUE
                 /\ salt_version' = [given |-> TRUE, text |-> Strip(stdout)]
                 /\ vpc' = "dircheck"
                 /\ UNCHANGED exitcode
    /\ UNCHANGED <<vfile, salt_is_dir, git_exists, overwrite, environ,
                   cifiles, stdout, raised, vfile0, cifiles0, cvars, hvars>>

\* lines 65-69
CheckSaltDir ==
    /\ vpc = "dircheck"
    /\ IF ~salt_is_dir THEN Exit(1) ELSE vpc' = "write" /\ UNCHANGED exitcode
    /\ UNCHANGED <<vfile, salt_is_dir, git_exists, salt_version, overwrite, environ,
                   cifiles, stdout, discovered, raised, vfile0, cifiles0, cvars, hvars>>

\* a variant that ends the text with a newline
WriteText_Newline(data) == File(data \o <<"\n">>)

\* Path.write_text(data): open(mode "w") truncates, then writes data
WriteText(data) == File(data)

\* lines 71-75: a failing write_text is caught; it fails at open (file as it
\* was) or after the truncation (file empty)
WriteVersionFile ==
    /\ vpc = "write"
    /\ \/ /\ vfile' = WriteText(salt_version.text)
          /\ vpc' = "ghenv"
          /\ UNCHANGED <<exitcode, raised>>
       \/ /\ vfile' \in {vfile, File(<<>>)}
          /\ Exit(1)
          /\ raised' = "write_text"
    /\ UNCHANGED <<salt_is_dir, git_exists, salt_version, overwrite, environ,
                   cifiles, stdout, discovered, vfile0, cifiles0, cvars, hvars>>

\* open(path, "w") ... wfh.write(line): the file holds the line and nothing else
OpenWrite(table, name, line) == [table EXCEPT ![name] = File(line)]

EnvLine(v) == <<"SALT_VERSION=">> \o v \o <<"\n">>
OutputLine(v) == <<"salt-version=">> \o v \o <<"\n">>

\* lines 79-84
WriteGithubEnv ==
    /\ vpc = "ghenv"
    /\ IF environ.GITHUB_ENV # None
       THEN \E ok \in BOOLEAN :
              IF ok
              THEN /\ cifiles' = OpenWrite(cifiles, environ.GITHUB_ENV,
                                           EnvLine(salt_version.text))
                   /\ vpc' = "ghout"
                   /\ UNCHANGED <<exitcode, raised>>
              ELSE Raise("open GITHUB_ENV") /\ UNCHANGED cifiles
       ELSE vpc' = "ghout" /\ UNCHANGED <<cifiles, exitcode, raised>>
    /\ UNCHANGED <<vfile, salt_is_dir, git_exists, salt_version, overwrite, environ,
                   stdout, discovered, vfile0, cifiles0, cvars, hvars>>

\* lines 86-93
WriteGithubOutput ==
    /\ vpc = "ghout"
    /\ IF environ.GITHUB_OUTPUT # None
       THEN \E ok \in BOOLEAN :
              IF ok
              THEN /\ cifiles' = OpenWrite(cifiles, environ.GITHUB_OUTPUT,
                                           OutputLine(salt_version.text))
                   /\ Exit(0)
                   /\ UNCHANGED raised
              ELSE Raise("open GITHUB_OUTPUT") /\ UNCHANGED cifiles
       ELSE Exit(0) /\ UNCHANGED <<cifiles, raised>>
    /\ UNCHANGED <<vfile, salt_is_dir, git_exists, salt_version, overwrite, environ,
                   stdout, discovered, vfile0, cifiles0, cvars, hvars>>

NextVersion ==
    \/ CheckExisting
    \/ UnlinkExisting
    \/ DiscoverVersion
    \/ CheckSaltDir
    \/ WriteVersionFile
    \/ WriteGithubEnv
    \/ WriteGithubOutput


-----------------------------------------------------------------------------
(* set-salt-version: properties *)

\* the version was given on the command line (discovery fills salt_version in)
Explicit == salt_version.given /\ ~discovered

\* C1: when salt/_version.txt exists and --overwrite is not set, then for every
\* version argument the command does nothing but exit 1: the version file keeps
\* its contents, the discovery is never run and no CI file is written.
C1_NoOverwriteRefusal ==
    (vfile0.exists /\ ~overwrite) =>
        /\ vpc \in {"start", "done"}
        /\ vpc = "done" => exitcode = 1
        /\ vfile = vfile0
        /\ ~discovered
        /\ cifiles = cifiles0

C1_Witness ==
    vpc = "done" /\ vfile0.exists /\ ~overwrite /\ exitcode = 1 /\ ~salt_version.given

\* C2 as stated: with an explicit version v, a missing version file or
\* --overwrite is enough for exit 0 and a version file holding exactly v.
C2_SuccessAlways ==
    (vpc = "done" /\ Explicit /\ (~vfile0.exists \/ overwrite)) =>
        (exitcode = 0 /\ vfile = File(salt_version.text))

\* C2 amended: with an explicit version v, a version file that is missing or
\* may be overwritten, salt/ a directory and no file operation raising, the
\* command exits 0 and the version file holds exactly v.
C2_SuccessPostcondition ==
    (/\ vpc = "done"
     /\ Explicit
     /\ ~vfile0.exists \/ overwrite
     /\ salt_is_dir
     /\ raised = None) =>
        (exitcode = 0 /\ vfile = File(salt_version.text))

C2_Witness ==
    /\ vpc = "done" /\ Explicit /\ vfile0.exists /\ overwrite /\ raised = None
    /\ exitcode = 0 /\ vfile # vfile0

\* appending a line to a file keeps what the file held
AppendLine(table, name, line) == [table EXCEPT ![name] = File(@.text \o line)]

AfterEnvAppend ==
    IF environ.GITHUB_ENV = None THEN cifiles0
    ELSE AppendLine(cifiles0, environ.GITHUB_ENV, EnvLine(salt_version.text))

AfterBothAppends ==
    IF environ.GITHUB_OUTPUT = None THEN AfterEnvAppend
    ELSE AppendLine(AfterEnvAppend, environ.GITHUB_OUTPUT, OutputLine(salt_version.text))

\* C8: after a successful run each CI file named by a set variable holds what it
\* held before followed by its line (both lines when both variables name it),
\* and a file no variable names is not written.
C8_CiLinesAppended ==
    (vpc = "done" /\ exitcode = 0) => cifiles = AfterBothAppends

\* C9: whenever the command ends with exit code 1 the version file is as it was
\* when the command was invoked.
C9_FailureKeepsVersionFile ==
    (vpc = "done" /\ exitcode = 1) => vfile = vfile0

-----------------------------------------------------------------------------
(* pre-archive-cleanup: paths and the file system *)

\* A path is the sequence of its components; every name is one character.
CleanupPath == <<"r">>
Outside == <<"o">>

Paths ==
    {CleanupPath, Outside,
     <<"o", "c">>, <<"o", "c", "t">>, <<"o", "p">>,
     <<"r", "c">>, <<"r", "c", "t">>,
     <<"r", "d">>, <<"r", "d", "p">>, <<"r", "d", "c">>,
     <<"r", "p">>, <<"r", "t">>, <<"r", "l">>}

LinkPath == <<"r", "l">>
LinkTargets == {<<"o", "c">>, <<"o", "p">>, <<"r", "d">>, <<"r", "d", "p">>}

NoEntry == [kind |-> "none", target |-> <<>>, data |-> <<>>]
DirEntry == [kind |-> "dir", target |-> <<>>, data |-> <<>>]
FileEntry(p) == [kind |-> "file", target |-> <<>>, data |-> <<"data of">> \o p]
LinkEntry(t) == [kind |-> "link", target |-> t, data |-> <<>>]

Parent(p) == SubSeq(p, 1, Len(p) - 1)
Below(d, p) == Len(p) > Len(d) /\ SubSeq(p, 1, Len(d)) = d
IsFileName(p) == p[Len(p)] \in {"p", "t"}

Kind(f, p) == IF p \in Paths THEN f[p].kind ELSE "none"

\* pathlib.Path.resolve(): follow the symbolic links of every component
RECURSIVE ResolveFrom(_, _, _)
ResolveFrom(f, done, rest) ==
    IF rest = <<>> THEN done
    ELSE LET q == Append(done, Head(rest)) IN
         IF Kind(f, q) = "link"
         THEN ResolveFrom(f, <<>>, f[q].target \o Tail(rest))
         ELSE ResolveFrom(f, q, Tail(rest))

Resolve(f, p) == ResolveFrom(f, <<>>, p)

\* Path.exists(), on a resolved path
Exists(f, p) == Kind(f, p) # "none"

\* PurePath.as_posix(): the characters of the path
RECURSIVE AsPosix(_)
AsPosix(p) == IF p = <<>> THEN <<>> ELSE <<"/", Head(p)>> \o AsPosix(Tail(p))

-----------------------------------------------------------------------------
(* fnmatch *)

Star == [t |-> "*", cs |-> {}]
AnyChar == [t |-> "?", cs |-> {}]
OneOf(cs) == [t |-> "[]", cs |-> cs]
Lit(c) == OneOf({c})

\* fnmatch.fnmatch(name, pat) on a POSIX platform: the whole of name matches,
\* "*" any run of characters ("/" too), "?" one character, "[seq]" one of seq
RECURSIVE fnmatch(_, _)
fnmatch(name, pat) ==
    IF pat = <<>> THEN name = <<>>
    ELSE LET h == Head(pat) IN
         IF h.t = "*"
         THEN fnmatch(name, Tail(pat)) \/ (name # <<>> /\ fnmatch(Tail(name), pat))
         ELSE /\ name # <<>>
              /\ h.t = "?" \/ Head(name) \in h.cs
              /\ fnmatch(Tail(name), Tail(pat))

-----------------------------------------------------------------------------
(* the cleanup rules and their flattening *)

\* a YAML value: a pattern string, or a list of values
Str(pat) == [list |-> FALSE, pat |-> pat, items |-> <<>>]
List(items) == [list |-> TRUE, pat |-> <<>>, items |-> items]

\* lines 138-143
RECURSIVE unnest_lists(_)
unnest_lists(patterns) ==
    IF patterns.list
    THEN UNION {unnest_lists(patterns.items[i]) : i \in DOMAIN patterns.items}
    ELSE {patterns.pat}

AnyCache == <<Star, Lit("/"), Lit("c")>>                                \* */c
AnyPyc == <<Star, Lit("/"), Lit("p")>>                                  \* */p
RootD == <<Star, Lit("/"), Lit("r"), Lit("/"), Lit("d")>>               \* */r/d
RootFile == <<Lit("/"), Lit("r"), Lit("/"), AnyChar>>                   \* /r/?
PycOrTxt == <<Star, Lit("/"), OneOf({"p", "t"})>>                       \* */[pt]

CiRules == [dir_patterns |-> List(<<Str(AnyCache)>>),
            file_patterns |-> List(<<Str(AnyPyc)>>)]
PkgRules == [dir_patterns |-> List(<<Str(AnyCache), List(<<Str(RootD), List(<<Str(AnyCache)>>)>>)>>),
             file_patterns |-> List(<<Str(AnyPyc), List(<<Str(RootFile)>>)>>)]
DarwinPkgRules == [dir_patterns |-> List(<<List(<<Str(RootD)>>)>>),
                   file_patterns |-> List(<<Str(PycOrTxt)>>)]

\* the contents of pkg/common/env-cleanup-rules.yml
Rules ==
    [ci |-> [windows |-> CiRules, darwin |-> CiRules, linux |-> CiRules],
     pkg |-> [windows |-> PkgRules, darwin |-> DarwinPkgRules, linux |-> PkgRules]]

\* lines 126-136
SelectRules(yaml, flag, platform) ==
    LET byMode == IF flag THEN yaml.pkg ELSE yaml.ci IN
    IF platform = "win32" THEN byMode.windows
    ELSE IF platform = "darwin" THEN byMode.darwin
    ELSE byMode.linux

-----------------------------------------------------------------------------
(* pre-archive-cleanup: inputs *)

Optional == Paths \ {CleanupPath, Outside, LinkPath}

MkFs(present, link) ==
    [p \in Paths |->
        IF p \in {CleanupPath, Outside} THEN DirEntry
        ELSE IF p = LinkPath THEN link
        ELSE IF p \notin present THEN NoEntry
        ELSE IF IsFileName(p) THEN FileEntry(p)
        ELSE DirEntry]

\* every entry lies in a directory
WellFormed(f) == \A p \in Paths : (Len(p) > 1 /\ f[p].kind # "none") => f[Parent(p)].kind = "dir"

CleanupIdle ==
    /\ cpc = "idle"
    /\ fs = <<>>
    /\ pkg = FALSE
    /\ sys_platform = "linux"
    /\ dir_patterns = {}
    /\ file_patterns = {}
    /\ stack = <<>>
    /\ top = <<>>
    /\ dirs = {}
    /\ dirs_todo = {}
    /\ files_todo = {}
    /\ path = <<>>
    /\ run = 0
    /\ missed = {}
    /\ envops = 0
    /\ fs0 = fs
    /\ fs_prev = fs

InitCleanup ==
    /\ cpc = "start"
    /\ \E present \in SUBSET Optional, link \in {NoEntry} \cup {LinkEntry(t) : t \in LinkTargets} :
          /\ fs = MkFs(present, link)
          /\ WellFormed(fs)
    /\ pkg \in BOOLEAN
    /\ sys_platform \in {"linux", "darwin"}
    /\ dir_patterns = {}
    /\ file_patterns = {}
    /\ stack = <<>>
    /\ top = <<>>
    /\ dirs = {}
    /\ dirs_todo = {}
    /\ files_todo = {}
    /\ path = <<>>
    /\ run = 1
    /\ missed = {}
    /\ envops = 0
    /\ fs0 = fs
    /\ fs_prev = fs

-----------------------------------------------------------------------------
(* pre-archive-cleanup: steps *)

MaxRuns == 2
MaxEnvOps == 1

VersionIdle ==
    /\ vpc = "idle"
    /\ vfile = Absent
    /\ salt_is_dir = FALSE
    /\ git_exists = FALSE
    /\ salt_version = [given |-> FALSE, text |-> <<>>]
    /\ overwrite = FALSE
    /\ environ = [GITHUB_ENV |-> None, GITHUB_OUTPUT |-> None]
    /\ cifiles = [c \in CiPaths |-> Absent]
    /\ stdout = <<>>
    /\ discovered = FALSE
    /\ exitcode = Running
    /\ raised = None
    /\ vfile0 = vfile
    /\ cifiles0 = cifiles

\* a variant that tests directories against the file patterns
DirMatches_FilePatterns(p) == \E pattern \in file_patterns : fnmatch(AsPosix(p), pattern)

DirMatches(p) == \E pattern \in dir_patterns : fnmatch(AsPosix(p), pattern)
FileMatches(p) == \E pattern \in file_patterns : fnmatch(AsPosix(p), pattern)

\* os.scandir(d): the entries of d
Children(f, d) == {q \in Paths : Parent(q) = d /\ f[q].kind # "none"}

\* DirEntry.is_dir(): follows symbolic links
IsDir(f, q) == Kind(f, Resolve(f, q)) = "dir"

\* shutil.rmtree(p): p and everything in it
rmtree(f, p) == [q \in Paths |-> IF q = p \/ Below(p, q) THEN NoEntry ELSE f[q]]

\* os.remove(p)
remove(f, p) == [f EXCEPT ![p] = NoEntry]

\* the orders a set can be listed in
Orders(S) == {o \in [1..Cardinality(S) -> S] : \A i, j \in DOMAIN o : o[i] = o[j] => i = j}

\* where the body of the walk loop continues
LoopPc(dt, ft) == IF dt # {} THEN "dirs" ELSE IF ft # {} THEN "files" ELSE "push"

\* lines 123-151
LoadPatterns ==
    /\ cpc = "start"
    /\ LET patterns == SelectRules(Rules, pkg, sys_platform) IN
         /\ dir_patterns' = unnest_lists(patterns.dir_patterns)
         /\ file_patterns' = unnest_lists(patterns.file_patterns)
    /\ stack' = <<CleanupPath>>
    /\ cpc' = "walk"
    /\ UNCHANGED <<fs, pkg, sys_platform, top, dirs, dirs_todo, files_todo, path, run,
                   missed, envops, fs0, fs_prev>>
    /\ UNCHANGED <<vvars, hvars>>

\* line 153, os.walk: take the next directory and list it; a directory that
\* cannot be listed is passed over (onerror is None); at the end the run is over
WalkNext ==
    /\ cpc = "walk"
    /\ IF stack = <<>>
       THEN cpc' = "done" /\ UNCHANGED <<stack, top, dirs, dirs_todo, files_todo>>
       ELSE /\ stack' = Tail(stack)
            /\ IF Kind(fs, Head(stack)) # "dir"
               THEN UNCHANGED <<cpc, top, dirs, dirs_todo, files_todo>>
               ELSE LET entries == Children(fs, Head(stack))
                        ds == {q \in entries : IsDir(fs, q)}
                    IN /\ top' = Head(stack)
                       /\ dirs' = ds
                       /\ dirs_todo' = ds
                       /\ files_todo' = entries \ ds
                       /\ cpc' = LoopPc(ds, entries \ ds)
    /\ UNCHANGED <<fs, pkg, sys_platform, dir_patterns, file_patterns, path, run,
                   missed, envops, fs0, fs_prev>>
    /\ UNCHANGED <<vvars, hvars>>

\* lines 154-163: the next dirname, in whatever order the listing has
VisitDir ==
    /\ cpc = "dirs"
    /\ \E q \in dirs_todo :
         LET resolved == Resolve(fs, q) IN
         /\ dirs_todo' = dirs_todo \ {q}
         /\ IF Exists(fs, resolved) /\ DirMatches(resolved)
            THEN path' = resolved /\ cpc' = "rmtree"
            ELSE cpc' = LoopPc(dirs_todo', files_todo) /\ UNCHANGED path
    /\ UNCHANGED <<fs, pkg, sys_platform, dir_patterns, file_patterns, stack, top, dirs,
                   files_todo, run, missed, envops, fs0, fs_prev>>
    /\ UNCHANGED <<vvars, hvars>>

\* a variant whose break leaves the loop over dirs as well
AfterBreak_LeavesDirs(todo) == {}

\* line 165: break leaves the loop over the patterns, not the loop over dirs
AfterBreak(todo) == todo

\* lines 164-165: rmtree raises when its argument is not a directory (any more)
RemoveTree ==
    /\ cpc = "rmtree"
    /\ IF Kind(fs, path) # "dir"
       THEN cpc' = "aborted" /\ UNCHANGED <<fs, dirs_todo>>
       ELSE /\ fs' = rmtree(fs, path)
            /\ dirs_todo' = AfterBreak(dirs_todo)
            /\ cpc' = LoopPc(dirs_todo', files_todo)
    /\ UNCHANGED <<pkg, sys_platform, dir_patterns, file_patterns, stack, top, dirs,
                   files_todo, path, run, missed, envops, fs0, fs_prev>>
    /\ UNCHANGED <<vvars, hvars>>

\* lines 166-175
VisitFile ==
    /\ cpc = "files"
    /\ \E q \in files_todo :
         LET resolved == Resolve(fs, q) IN
         /\ files_todo' = files_todo \ {q}
         /\ IF ~Exists(fs, resolved)
            THEN /\ missed' = missed \cup {"exists"}
                 /\ cpc' = LoopPc(dirs_todo, files_todo')
                 /\ UNCHANGED path
            ELSE /\ UNCHANGED missed
                 /\ IF FileMatches(resolved)
                    THEN path' = resolved /\ cpc' = "remove"
                    ELSE cpc' = LoopPc(dirs_todo, files_todo') /\ UNCHANGED path
    /\ UNCHANGED <<fs, pkg, sys_platform, dir_patterns, file_patterns, stack, top, dirs,
                   dirs_todo, run, envops, fs0, fs_prev>>
    /\ UNCHANGED <<vvars, hvars>>

\* a variant without the except clause
RemoveFile_Uncaught ==
    /\ cpc = "remove"
    /\ IF Kind(fs, path) # "file"
       THEN cpc' = "aborted" /\ UNCHANGED fs
       ELSE fs' = remove(fs, path) /\ cpc' = LoopPc(dirs_todo, files_todo)
    /\ UNCHANGED <<pkg, sys_platform, dir_patterns, file_patterns, stack, top, dirs,
                   dirs_todo, files_todo, path, run, missed, envops, fs0, fs_prev>>
    /\ UNCHANGED <<vvars, hvars>>

\* lines 176-180: FileNotFoundError is passed over, any other error is not
RemoveFile ==
    /\ cpc = "remove"
    /\ IF Kind(fs, path) = "none"
       THEN /\ missed' = missed \cup {"remove"}
            /\ cpc' = LoopPc(dirs_todo, files_todo)
            /\ UNCHANGED fs
       ELSE IF Kind(fs, path) = "dir"
       THEN cpc' = "aborted" /\ UNCHANGED <<fs, missed>>
       ELSE /\ fs' = remove(fs, path)
            /\ cpc' = LoopPc(dirs_todo, files_todo)
            /\ UNCHANGED missed
    /\ UNCHANGED <<pkg, sys_platform, dir_patterns, file_patterns, stack, top, dirs,
                   dirs_todo, files_todo, path, run, envops, fs0, fs_prev>>
    /\ UNCHANGED <<vvars, hvars>>

\* os.walk after the loop body: the listed directories that are not symbolic
\* links are walked next, before the directories already waiting
PushDirs ==
    /\ cpc = "push"
    /\ \E order \in Orders({q \in dirs : Kind(fs, q) # "link"}) : stack' = order \o stack
    /\ cpc' = "walk"
    /\ UNCHANGED <<fs, pkg, sys_platform, dir_patterns, file_patterns, top, dirs,
                   dirs_todo, files_todo, path, run, missed, envops, fs0, fs_prev>>
    /\ UNCHANGED <<vvars, hvars>>

\* the command is run again on what the last run left
Rerun ==
    /\ cpc = "done"
    /\ run < MaxRuns
    /\ run' = run + 1
    /\ fs_prev' = fs
    /\ missed' = {}
    /\ cpc' = "start"
    /\ UNCHANGED <<fs, pkg, sys_platform, dir_patterns, file_patterns, stack, top, dirs,
                   dirs_todo, files_todo, path, envops, fs0>>
    /\ UNCHANGED <<vvars, hvars>>

\* another process removes a file the walk has listed and not yet dealt with
EnvRemoveFile ==
    /\ cpc \in {"dirs", "rmtree", "files", "remove"}
    /\ envops < MaxEnvOps
    /\ \E q \in files_todo \cup {Resolve(fs, e) : e \in files_todo}
                 \cup (IF cpc = "remove" THEN {path} ELSE {}) :
          /\ Kind(fs, q) \in {"file", "link"}
          /\ fs' = remove(fs, q)
    /\ envops' = envops + 1
    /\ UNCHANGED <<cpc, pkg, sys_platform, dir_patterns, file_patterns, stack, top, dirs,
                   dirs_todo, files_todo, path, run, missed, fs0, fs_prev>>
    /\ UNCHANGED <<vvars, hvars>>

\* another process removes a directory the walk has listed and not yet dealt with
EnvRemoveDir ==
    /\ cpc \in {"dirs", "rmtree"}
    /\ envops < MaxEnvOps
    /\ \E q \in {Resolve(fs, e) : e \in dirs_todo} \cup (IF cpc = "rmtree" THEN {path} ELSE {}) :
          /\ Kind(fs, q) = "dir"
          /\ fs' = rmtree(fs, q)
    /\ envops' = envops + 1
    /\ UNCHANGED <<cpc, pkg, sys_platform, dir_patterns, file_patterns, stack, top, dirs,
                   dirs_todo, files_todo, path, run, missed, fs0, fs_prev>>
    /\ UNCHANGED <<vvars, hvars>>

CleanupStep ==
    \/ LoadPatterns
    \/ WalkNext
    \/ VisitDir
    \/ RemoveTree
    \/ VisitFile
    \/ RemoveFile
    \/ PushDirs

NextCleanup == CleanupStep \/ Rerun
NextFileRace == CleanupStep \/ EnvRemoveFile
NextDirRace == CleanupStep \/ EnvRemoveDir


-----------------------------------------------------------------------------
(* generate-hashes: digests and JSON *)

\* The text of a file is a sequence of numbers. Data bytes, the characters of
\* JSON and the characters of a hex digest are kept apart, as they are in fact:
\* a hex digest holds no quote, brace, colon, comma or space.
Tok == [lbrace |-> 1, rbrace |-> 2, quote |-> 3, colon |-> 4, comma |-> 5, space |-> 6,
        blake2b |-> 11, sha512 |-> 12, sha3_512 |-> 13]
HexBase == 100

HashNames == <<"blake2b", "sha512", "sha3_512">>

\* the characters of a key of the dict
KeyText(hash_name) == <<Tok[hash_name]>>

\* a digest object: the algorithm and the bytes fed to it so far
NewDigest(hash_name) == [name |-> hash_name, fed |-> <<>>]
Update(digest, bytes) == [digest EXCEPT !.fed = @ \o bytes]

\* digest.hexdigest(): one text per algorithm and input, made of hex characters
HexDigest(digest) ==
    <<HexBase + Tok[digest.name]>> \o [i \in 1..Len(digest.fed) |-> HexBase + digest.fed[i]]

\* hashlib.file_digest(rfh, hash_name)
FileDigest(text, hash_name) == Update(NewDigest(hash_name), text)

\* lines 206-213: readinto the buffer until a read of size 0. The buffer of the
\* code holds 2**18 bytes; the texts here are a few bytes long and so is BufSize.
BufSize == 2

Min(a, b) == IF a < b THEN a ELSE b

RECURSIVE ReadLoop(_, _, _)
ReadLoop(digest, text, pos) ==
    LET size == Min(BufSize, Len(text) - pos) IN
    IF size = 0 THEN digest
    ELSE ReadLoop(Update(digest, SubSeq(text, pos + 1, pos + size)), text, pos + size)

Quoted(text) == <<Tok.quote>> \o text \o <<Tok.quote>>

\* json.dumps(dict): {"k": "v", "k": "v"}, in insertion order
RECURSIVE DumpItems(_)
DumpItems(items) ==
    IF items = <<>> THEN <<>>
    ELSE Quoted(KeyText(Head(items).name)) \o <<Tok.colon, Tok.space>>
           \o Quoted(Head(items).hexdigest)
           \o (IF Tail(items) = <<>> THEN <<>> ELSE <<Tok.comma, Tok.space>>)
           \o DumpItems(Tail(items))

JsonDumps(items) == <<Tok.lbrace>> \o DumpItems(items) \o <<Tok.rbrace>>

\* the quoted strings of a JSON text, in order
RECURSIVE QuotedStrings(_, _, _)
QuotedStrings(text, inside, current) ==
    IF text = <<>> THEN <<>>
    ELSE IF Head(text) = Tok.quote
         THEN IF inside THEN <<current>> \o QuotedStrings(Tail(text), FALSE, <<>>)
              ELSE QuotedStrings(Tail(text), TRUE, <<>>)
         ELSE QuotedStrings(Tail(text), inside, IF inside THEN Append(current, Head(text)) ELSE current)

\* json.loads of an object of strings: its keys, and the value of each key
JsonKeys(text) ==
    LET strs == QuotedStrings(text, FALSE, <<>>) IN
    [i \in 1..(Len(strs) \div 2) |-> strs[2 * i - 1]]

JsonValue(text, key) ==
    LET strs == QuotedStrings(text, FALSE, <<>>)
        i == CHOOSE j \in 1..(Len(strs) \div 2) : strs[2 * j - 1] = key
    IN strs[2 * i]

IsJsonObject(text) ==
    /\ Len(text) >= 2
    /\ Head(text) = Tok.lbrace
    /\ text[Len(text)] = Tok.rbrace
    /\ Len(QuotedStrings(text, FALSE, <<>>)) % 2 = 0

-----------------------------------------------------------------------------
(* generate-hashes: inputs *)

MaxFiles == 2

\* a file name is the sequence of its dot-separated parts
Inputs == {<<"a">>, <<"b">>, <<"a", "sha512">>, <<"a", "json">>}
Stale == {<<"a", "blake2b">>, <<"b", "json">>}
Texts == {<<21>>, <<21, 22, 23>>}

\* f"{fpath.name}.{suffix}"
Sibling(fpath, suffix) == Append(fpath, suffix)

HashIdle ==
    /\ hpc = "idle"
    /\ hfs = <<>>
    /\ files = <<>>
    /\ fi = 0
    /\ hi = 0
    /\ hashes = <<>>
    /\ legacy = FALSE
    /\ hfs0 = <<>>

InitHashes ==
    /\ hpc = "hash"
    /\ \E present \in SUBSET (Inputs \cup Stale) : hfs \in [present -> Texts]
    /\ \E n \in 0..MaxFiles : files \in [1..n -> Inputs]
    /\ fi = 1
    /\ hi = 1
    /\ hashes = <<>>
    /\ legacy \in BOOLEAN
    /\ hfs0 = hfs

-----------------------------------------------------------------------------
(* generate-hashes: steps *)

\* a variant that keeps what the file held and writes after it
WriteFile_Appends(dir, name, text) ==
    [n \in DOMAIN dir \cup {name} |->
        IF n # name THEN dir[n] ELSE IF name \in DOMAIN dir THEN dir[name] \o text ELSE text]

\* Path.write_text(text): the file holds text and nothing else
WriteFile(dir, name, text) == [n \in DOMAIN dir \cup {name} |-> IF n = name THEN text ELSE dir[n]]

\* line 196: the loop over files ends, "Done"
Finish ==
    /\ hpc = "hash"
    /\ fi > Len(files)
    /\ hpc' = "done"
    /\ UNCHANGED <<hfs, files, fi, hi, hashes, legacy, hfs0>>
    /\ UNCHANGED <<vvars, cvars>>

\* lines 199-218: one algorithm of one file: read, digest, write the digest file
HashFile ==
    /\ hpc = "hash"
    /\ fi <= Len(files)
    /\ LET fpath == files[fi]
           hash_name == HashNames[hi]
       IN IF fpath \notin DOMAIN hfs
          THEN hpc' = "aborted" /\ UNCHANGED <<hfs, hi, hashes>>
          ELSE LET digest == IF legacy THEN ReadLoop(NewDigest(hash_name), hfs[fpath], 0)
                             ELSE FileDigest(hfs[fpath], hash_name)
                   hexdigest == HexDigest(digest)
               IN /\ hfs' = WriteFile(hfs, Sibling(fpath, hash_name), hexdigest)
                  /\ hashes' = Append(hashes, [name |-> hash_name, hexdigest |-> hexdigest])
                  /\ IF hi < Len(HashNames)
                     THEN hi' = hi + 1 /\ UNCHANGED hpc
                     ELSE hpc' = "json" /\ UNCHANGED hi
    /\ UNCHANGED <<files, fi, legacy, hfs0>>
    /\ UNCHANGED <<vvars, cvars>>

\* lines 219-221, and on to the next file
WriteJson ==
    /\ hpc = "json"
    /\ hfs' = WriteFile(hfs, Sibling(files[fi], "json"), JsonDumps(hashes))
    /\ fi' = fi + 1
    /\ hi' = 1
    /\ hashes' = <<>>
    /\ hpc' = "hash"
    /\ UNCHANGED <<files, legacy, hfs0>>
    /\ UNCHANGED <<vvars, cvars>>

NextHashes == Finish \/ HashFile \/ WriteJson

-----------------------------------------------------------------------------
(* pre-archive-cleanup: properties *)

BelowRoot(p) == Below(CleanupPath, p)

\* a path matches a set of patterns when its POSIX form matches one of them
MatchesOneOf(patterns, p) == \E pattern \in patterns : fnmatch(AsPosix(p), pattern)

\* no entry below the root is left that is a directory with a resolved path
\* matching a directory pattern, or a file with one matching a file pattern
NoMatchRemains ==
    \A p \in Paths :
        (BelowRoot(p) /\ fs[p].kind # "none") =>
            LET resolved == Resolve(fs, p) IN
            /\ Kind(fs, resolved) = "dir" => ~MatchesOneOf(dir_patterns, resolved)
            /\ Kind(fs, resolved) = "file" => ~MatchesOneOf(file_patterns, resolved)

InMatchingDir(p) == \E d \in Paths : Below(d, p) /\ MatchesOneOf(dir_patterns, d)

\* C3 as stated: after a run that ends normally nothing matching is left below
\* the root, and every file below the root whose path matches no file pattern
\* is still there with its contents.
C3_NonMatchingFilesKept ==
    cpc = "done" =>
        /\ NoMatchRemains
        /\ \A p \in Paths :
              (BelowRoot(p) /\ fs0[p].kind = "file" /\ ~MatchesOneOf(file_patterns, p)) => fs[p] = fs0[p]

\* C3 amended: after a run that ends normally nothing matching is left below
\* the root, and every file below the root whose path matches no file pattern
\* and which lies in no directory whose path matches a directory pattern is
\* still there with its contents.
C3_CleanupPostcondition ==
    cpc = "done" =>
        /\ NoMatchRemains
        /\ \A p \in Paths :
              (BelowRoot(p) /\ fs0[p].kind = "file" /\ ~MatchesOneOf(file_patterns, p) /\ ~InMatchingDir(p))
                  => fs[p] = fs0[p]

C3_Witness ==
    /\ cpc = "done" /\ run = 1
    /\ \E p \in Paths : BelowRoot(p) /\ fs0[p].kind = "file" /\ MatchesOneOf(file_patterns, p) /\ fs[p].kind = "none"
    /\ \E p \in Paths : BelowRoot(p) /\ fs0[p].kind = "dir" /\ MatchesOneOf(dir_patterns, p) /\ fs[p].kind = "none"
    /\ \E p \in Paths : BelowRoot(p) /\ fs0[p].kind = "file" /\ fs[p] = fs0[p]

\* C4: whatever a run removes lies below the cleanup root: everything that is
\* not below the root stays as it was, symbolic links in the tree or not.
C4_NothingOutsideRemoved ==
    \A p \in Paths : ~BelowRoot(p) => fs[p] = fs0[p]

\* C5: a second run on what the first run left, nothing else touching the tree,
\* deletes nothing and ends normally: the file system stays as the first run
\* left it.
C5_SecondRunChangesNothing ==
    run >= 2 => (fs = fs_prev /\ cpc # "aborted")

C5_Witness ==
    run = 2 /\ cpc = "done" /\ fs_prev # fs0 /\ fs = fs_prev

\* C6: when another process removes a listed file before the command checks it
\* or between the check and os.remove, the command does not fail: it goes on
\* through the rest of the walk, and at the end nothing matching is left.
C6_FileRaceTolerated ==
    /\ cpc # "aborted"
    /\ cpc = "done" => (stack = <<>> /\ dirs_todo = {} /\ files_todo = {} /\ NoMatchRemains)

C6_Witness ==
    cpc = "done" /\ envops = 1 /\ "remove" \in missed

\* C10: a directory that another process removes between the existence check
\* and shutil.rmtree does not abort the run.
C10_DirRaceTolerated ==
    cpc # "aborted"

-----------------------------------------------------------------------------
(* generate-hashes: properties *)

Suffixes == {HashNames[i] : i \in DOMAIN HashNames} \cup {"json"}

\* the digest of a text under an algorithm
Reference(hash_name, text) == HexDigest(Update(NewDigest(hash_name), text))

\* the outputs of f are those of the text f had when the command was invoked
OutputsCorrect(f) ==
    /\ \A h \in Suffixes \ {"json"} :
          /\ Sibling(f, h) \in DOMAIN hfs
          /\ hfs[Sibling(f, h)] = Reference(h, hfs0[f])
    /\ Sibling(f, "json") \in DOMAIN hfs
    /\ LET text == hfs[Sibling(f, "json")] IN
          /\ IsJsonObject(text)
          /\ Len(JsonKeys(text)) = 3
          /\ {JsonKeys(text)[i] : i \in 1..3} = {KeyText(h) : h \in Suffixes \ {"json"}}
          /\ \A h \in Suffixes \ {"json"} : JsonValue(text, KeyText(h)) = Reference(h, hfs0[f])

\* no supplied file is a digest file or the JSON file of a supplied file
NoOutputSupplied ==
    \A i, j \in DOMAIN files : \A x \in Suffixes : files[i] # Sibling(files[j], x)

\* C7 as stated: when the command has finished, the three digest files and the
\* JSON file of every supplied file hold the digests of the text that file had
\* when the command was invoked, whatever the names and the order of the files.
C7_OutputsOfInvocationTexts ==
    hpc = "done" =>
        \A i \in DOMAIN files : files[i] \in DOMAIN hfs0 => OutputsCorrect(files[i])

\* C7 amended: when the command has finished and no supplied file is itself a
\* digest file or the JSON file of a supplied file, every supplied file existed
\* at the invocation and its three digest files and its JSON file hold the
\* digests of the text it had then.
C7_OutputCorrectness ==
    (hpc = "done" /\ NoOutputSupplied) =>
        \A i \in DOMAIN files : files[i] \in DOMAIN hfs0 /\ OutputsCorrect(files[i])

C7_Witness ==
    /\ hpc = "done" /\ NoOutputSupplied /\ legacy
    /\ Len(files) = 2 /\ files[1] = <<"b">> /\ files[2] = <<"a">>
    /\ <<"a", "blake2b">> \in DOMAIN hfs0 /\ <<"b", "json">> \in DOMAIN hfs0
    /\ Len(hfs0[<<"a">>]) > BufSize

-----------------------------------------------------------------------------
(* the specifications, one per command *)

InitSetSaltVersion == InitVersion /\ CleanupIdle /\ HashIdle
InitPreArchiveCleanup == VersionIdle /\ InitCleanup /\ HashIdle
InitGenerateHashes == VersionIdle /\ CleanupIdle /\ InitHashes

SpecVersion == InitSetSaltVersion /\ [][NextVersion]_vars
SpecCleanup == InitPreArchiveCleanup /\ [][NextCleanup]_vars
SpecFileRace == InitPreArchiveCleanup /\ [][NextFileRace]_vars
SpecDirRace == InitPreArchiveCleanup /\ [][NextDirRace]_vars
SpecHashes == InitGenerateHashes /\ [][NextHashes]_vars

=============================================================================
